---- MODULE Spec2Model ----
\* pydantic_argify: a command-line parser derived from a pydantic schema
\* (src/pydantic_argify/parse.py) and the command registry with its dispatch
\* (src/pydantic_argify/cli.py).
\*
\* Python strings are modelled as sequences of one-character strings, so that
\* replace, strip, split, join and "first character" are computed as the code
\* computes them.  Python None is the empty sequence for strings and lists.
EXTENDS Integers, Sequences, FiniteSets, TLC

VARIABLES
    registry,      \* cli.py:13   _registry: command name (or None) -> handler
    invoked,       \* user code run by the last cli.py call, in call order: handlers, and the
                   \* sections ("pre", "post") of a function wrapped by entrypoint
    cli_result,    \* outcome of the last cli.py operation
    default_excl,  \* parse.py:160 the list object that is the default of exclude_truncated_args
    caller_excl,   \* a list object the caller owns and may pass as exclude_truncated_args
    cli_decl,      \* the list objects declared under the extension key "cli", per field
    prev,          \* the build_parser call before the last one
    cur,           \* the last build_parser call: its arguments and the parser it mutated
    builds,        \* number of build_parser calls made
    ns             \* outcome of the last parse_args call on cur's parser

vars == <<registry, invoked, cli_result, default_excl, caller_excl, cli_decl, prev, cur, builds, ns>>

\* ------------------------------------------------------------------ bounds

MaxBuilds == 2
MaxArgs == 3

\* ------------------------------------------------------------------ strings

None == <<>>

Dash == "-"
Dot == "."
Underscore == "_"

RECURSIVE replace(_, _, _)
\* str.replace(old, new) for a one-character old
replace(s, old, new) ==
    IF s = <<>> THEN <<>>
    ELSE (IF Head(s) = old THEN new ELSE <<Head(s)>>) \o replace(Tail(s), old, new)

RECURSIVE lstrip(_, _)
lstrip(s, c) ==
    IF s # <<>> /\ Head(s) = c THEN lstrip(Tail(s), c) ELSE s

RECURSIVE rstrip(_, _)
rstrip(s, c) ==
    IF s # <<>> /\ s[Len(s)] = c THEN rstrip(SubSeq(s, 1, Len(s) - 1), c) ELSE s

\* str.strip(c)
strip(s, c) == rstrip(lstrip(s, c), c)

RECURSIVE split_acc(_, _, _)
split_acc(s, c, part) ==
    IF s = <<>> THEN <<part>>
    ELSE IF Head(s) = c THEN <<part>> \o split_acc(Tail(s), c, <<>>)
    ELSE split_acc(Tail(s), c, Append(part, Head(s)))

\* str.split(c): the parts between the occurrences of c, empty parts kept
split(s, c) == split_acc(s, c, <<>>)

RECURSIVE join(_, _)
\* sep.join(parts)
join(sep, parts) ==
    IF parts = <<>> THEN <<>>
    ELSE IF Len(parts) = 1 THEN parts[1]
    ELSE parts[1] \o sep \o join(sep, Tail(parts))

\* x in list
In(x, list) == \E i \in 1..Len(list) : list[i] = x

\* dict.get(key, default)
Get(d, key, default) == IF key \in DOMAIN d THEN d[key] ELSE default

\* ------------------------------------------------------------------ values

VNone == [t |-> "none"]
VStr(s) == [t |-> "str", v |-> s]
VInt(n) == [t |-> "int", v |-> n]
VBool(b) == [t |-> "bool", v |-> b]
VDict(d) == [t |-> "dict", v |-> d]

Digits == <<"0", "1", "2", "3", "4", "5", "6", "7", "8", "9">>

IsDigit(c) == \E i \in 1..10 : Digits[i] = c

DigitVal(c) == (CHOOSE i \in 1..10 : Digits[i] = c) - 1

RECURSIVE int_acc(_, _)
int_acc(s, n) == IF s = <<>> THEN n ELSE int_acc(Tail(s), 10 * n + DigitVal(Head(s)))

\* whether int(token) succeeds (unsigned decimal tokens only)
IsInt(s) == s # <<>> /\ \A i \in 1..Len(s) : IsDigit(s[i])

\* the declared values of the library's enumeration, class Mark(str, Enum)
EnumValues == <<<<"x">>, <<"y">>>>

\* the action's type applied to one token: str, int, bool, the enumeration
\* class (the member of that value), or no type
Coerce(type, tok) ==
    CASE type = "int" -> VInt(int_acc(tok, 0))
      [] type = "bool" -> VBool(tok # <<>>)
      [] OTHER -> VStr(tok)

CoerceFails(type, tok) ==
    \/ type = "int" /\ ~IsInt(tok)
    \/ type = "enum" /\ ~In(tok, EnumValues)

\* ------------------------------------------------------------------ schema types
\* The schema types the parser is built from: what pydantic's model_fields,
\* model_config and __mro__ give for a small library of BaseModel classes.

s_alpha == <<"a", "l", "p", "h", "a">>
s_aardvark == <<"a", "a", "r", "d", "v", "a", "r", "k">>
s_host == <<"h", "o", "s", "t">>
s_name == <<"n", "a", "m", "e">>
s_age == <<"a", "g", "e">>
s_is_active == <<"i", "s", "_", "a", "c", "t", "i", "v", "e">>
s_child == <<"c", "h", "i", "l", "d">>
s_child2 == <<"c", "h", "i", "l", "d", "2">>
s_top == <<"t", "o", "p">>
s_mid == <<"m", "i", "d">>
s_leaf == <<"l", "e", "a", "f">>
s_x == <<"x">>
s_y == <<"y">>
s_v == <<"v">>
s_param == <<"p", "a", "r", "a", "m">>
s_switch == <<"s", "w", "i", "t", "c", "h">>
s_half == <<"h", "a", "l", "f">>
s_foo == <<"f", "o", "o">>
s_color == <<"c", "o", "l", "o", "r">>
s_verbose == <<"v", "e", "r", "b", "o", "s", "e">>
s_ui == <<"u", "i">>
s_level == <<"l", "e", "v", "e", "l">>
s_extra == <<"e", "x", "t", "r", "a">>
s_tag == <<"t", "a", "g">>
s_left == <<"l", "e", "f", "t">>
s_right == <<"r", "i", "g", "h", "t">>
s_mode == <<"m", "o", "d", "e">>
s_opts == <<"o", "p", "t", "s">>
s_label == <<"l", "a", "b", "e", "l">>
s_size == <<"s", "i", "z", "e">>
s_param_alias == <<"p", "a", "r", "a", "m", "_", "a", "l", "i", "a", "s">>
s_debug == <<"d", "e", "b", "u", "g">>
s_debug_mode == <<"d", "e", "b", "u", "g", "_", "m", "o", "d", "e">>

\* the prefixes of the tests' and examples' schema-level and field-level overrides
p_on == <<"-", "-", "o", "n", "-">>
p_off == <<"-", "-", "o", "f", "f", "-">>
p_true == <<"-", "-", "t", "r", "u", "e", "-">>
p_false == <<"-", "-", "f", "a", "l", "s", "e", "-">>
p_yes == <<"-", "-", "y", "e", "s", "-">>

\* a FieldInfo: annotation is the shape of the declared type ("str", "int",
\* "bool", "record" for a BaseModel subclass, "optrecord" for Record | None,
\* "union" for any other union), sub the nested schema type, cli_key the
\* declared "cli" list object ("" when the field declares none), targs what
\* typing.get_args gives for the annotation
Fld(name, annotation, sub, required, default, has_extra, extra, cli_key) ==
    [name |-> name, annotation |-> annotation, sub |-> sub, required |-> required,
     default |-> default, alias |-> None, has_extra |-> has_extra, extra |-> extra,
     cli_key |-> cli_key, targs |-> <<>>]

Req(name, annotation) == Fld(name, annotation, "", TRUE, VNone, FALSE, <<>>, "")

Opt(name, annotation, default) == Fld(name, annotation, "", FALSE, default, FALSE, <<>>, "")

\* a required field declared with Field(alias=...)
Ali(name, alias, annotation) == [Req(name, annotation) EXCEPT !.alias = alias]

Rec(name, sub) == Fld(name, "record", sub, TRUE, VNone, FALSE, <<>>, "")

ModelIds ==
    {"Flat", "Child", "Config", "Kid", "Pair", "Leaf", "Mid", "Deep", "Bools", "Named", "Toggles", "Shell",
     "Aliased", "Tagged", "Opts", "Modes", "Base", "Derived", "Side", "Multi", "Twins", "Gate", "Hall", "House", "Params"}

\* model.model_fields in declaration order
ModelFields(id) ==
    CASE id = "Flat" -> <<Req(s_alpha, "str"), Opt(s_aardvark, "str", VStr(s_x)), Opt(s_host, "str", VStr(s_x))>>
      [] id = "Child" -> <<Req(s_name, "str"), Opt(s_age, "int", VInt(10)), Req(s_is_active, "bool")>>
      [] id = "Config" -> <<Req(s_name, "str"), Rec(s_child, "Child"),
                            Fld(s_child2, "optrecord", "Child", FALSE, VNone, FALSE, <<>>, "")>>
      [] id = "Kid" -> <<Req(s_name, "str"), Opt(s_age, "int", VInt(10))>>
      [] id = "Pair" -> <<Req(s_name, "str"), Rec(s_child, "Kid")>>
      [] id = "Leaf" -> <<Req(s_v, "int")>>
      [] id = "Mid" -> <<Req(s_x, "str"), Rec(s_leaf, "Leaf"), Opt(s_y, "str", VStr(s_x))>>
      [] id = "Deep" -> <<Req(s_top, "str"), Rec(s_mid, "Mid")>>
      [] id = "Bools" -> <<Req(s_param, "bool"),
                           Fld(s_switch, "bool", "", TRUE, VNone, TRUE,
                               ("cli_enable_prefix" :> p_true) @@ ("cli_disable_prefix" :> p_false), ""),
                           Fld(s_half, "bool", "", TRUE, VNone, TRUE, ("cli_enable_prefix" :> p_yes), "")>>
      [] id = "Toggles" -> <<Opt(s_color, "bool", VBool(TRUE)), Opt(s_verbose, "bool", VBool(FALSE))>>
      [] id = "Shell" -> <<Rec(s_ui, "Toggles")>>
      [] id = "Aliased" -> <<Ali(s_param, s_param_alias, "str"), Ali(s_debug, s_debug_mode, "bool")>>
      [] id = "Tagged" -> <<Fld(s_label, "str", "", TRUE, VNone, TRUE, <<>>, "Tagged.label"),
                            Req(s_size, "int")>>
      [] id = "Opts" -> <<Req(s_opts, "dict")>>
      [] id = "Params" -> <<Opt(s_opts, "dict", VDict((s_y :> VStr(s_x))))>>
      [] id = "Modes" -> <<[Req(s_mode, "enum") EXCEPT !.targs = EnumValues]>>
      [] id = "Twins" -> <<Rec(s_left, "Kid"), Rec(s_right, "Kid")>>
      [] id = "Gate" -> <<Req(s_is_active, "bool")>>
      [] id = "Hall" -> <<Rec(s_child, "Gate")>>
      [] id = "House" -> <<Rec(s_mid, "Hall")>>
      [] id = "Base" -> <<Req(s_param, "str"), Opt(s_level, "int", VInt(10))>>
      [] id = "Derived" -> <<Opt(s_param, "str", VStr(s_x)), Opt(s_level, "int", VInt(10)), Req(s_extra, "str")>>
      [] id = "Side" -> <<Req(s_level, "int")>>
      [] id = "Multi" -> <<Opt(s_level, "int", VInt(10)), Opt(s_param, "str", VStr(s_x)),
                           Req(s_extra, "str"), Req(s_tag, "str")>>
      [] OTHER -> <<Fld(s_foo, "str", "", TRUE, VNone, TRUE, <<>>, "Named.foo"), Req(s_name, "str")>>

\* model.model_config
ModelConfig(id) ==
    IF id = "Bools" THEN ("cli_enable_prefix" :> p_on) @@ ("cli_disable_prefix" :> p_off) ELSE <<>>

\* model.__mro__ up to BaseModel, the concrete type first: class Derived(Base)
\* redefines param and adds extra, class Multi(Derived, Side) adds tag, and
\* Base and Side both declare level
ModelMro(id) ==
    CASE id = "Derived" -> <<"Derived", "Base">>
      [] id = "Multi" -> <<"Multi", "Derived", "Base", "Side">>
      [] OTHER -> <<id>>

\* the "cli" lists as declared, before any build_parser call
CliDeclared ==
    ("Named.foo" :> <<<<"-", "-", "f", "o", "o">>, <<"-", "n">>>>)
    @@ ("Tagged.label" :> <<<<"-", "-", "t", "a", "g">>>>)

\* field.json_schema_extra with the declared "cli" list object as it is now
json_schema_extra(field, cli) ==
    IF field.cli_key = "" THEN field.extra ELSE ("cli" :> cli[field.cli_key]) @@ field.extra

\* get_model_field
get_model_field(id) == ModelFields(id)

RECURSIVE groupby_fields(_, _, _)
groupby_fields(fields, label, result) ==
    IF fields = <<>> THEN result
    ELSE groupby_fields(Tail(fields), label,
             IF Head(fields).name \in DOMAIN result THEN result
             ELSE (Head(fields).name :> label) @@ result)

RECURSIVE groupby_models(_, _)
\* the second loop of get_groupby_field_names over reversed(models)
groupby_models(models, result) ==
    IF models = <<>> THEN result
    ELSE groupby_models(SubSeq(models, 1, Len(models) - 1),
             groupby_fields(get_model_field(models[Len(models)]), models[Len(models)], result))

\* get_groupby_field_names letting the concrete type label every field
get_groupby_field_names_concrete(id) == groupby_fields(get_model_field(id), id, <<>>)

\* get_groupby_field_names: field name -> name of the model that groups it
get_groupby_field_names(id) == groupby_models(ModelMro(id), <<>>)

\* _get_extra
_get_extra(field, cli, config, key, default) ==
    IF ~field.has_extra THEN Get(config, key, default)
    ELSE Get(json_schema_extra(field, cli), key, default)

\* ------------------------------------------------------------------ argparse
\* The parser object that build_parser mutates, as far as the calls of parse.py
\* use it: add_argument, add_argument_group, add_mutually_exclusive_group.

\* del d[key]
Del(d, key) == [k \in (DOMAIN d) \ {key} |-> d[k]]

\* ArgumentParser(): the help action is registered by the constructor
HelpAction ==
    [option_strings |-> <<<<"-", "h">>, <<"-", "-", "h", "e", "l", "p">>>>,
     dest |-> <<"h", "e", "l", "p">>, action |-> "help", type |-> "None", nargs |-> "0",
     choices |-> None,
     default |-> VNone, required |-> FALSE, container |-> 0, mutex |-> 0, origin |-> <<>>]

NewParser == [actions |-> <<HelpAction>>, groups |-> <<>>, mutex |-> <<>>]

\* every option string registered in the parser (_option_string_actions)
OptionStrings(parser) ==
    UNION {{parser.actions[i].option_strings[j] : j \in 1..Len(parser.actions[i].option_strings)} :
              i \in 1..Len(parser.actions)}

\* _handle_conflict_error: add_argument raises ArgumentError when one of the
\* option strings is already registered (conflict_handler = "error")
Conflicts(parser, args) == \E j \in 1..Len(args) : args[j] \in OptionStrings(parser)

IsLong(opt) == Len(opt) > 1 /\ opt[2] = Dash

\* _get_optional_kwargs: dest from the first long option string, else the first
DestOf(args) ==
    LET longs == SelectSeq(args, IsLong)
        pick == IF longs # <<>> THEN longs[1] ELSE args[1]
    IN  replace(lstrip(pick, Dash), Dash, <<Underscore>>)

\* the Action object add_argument creates from args and kwargs; origin is the
\* path of field names the option was synthesized for (bookkeeping of the
\* model: no operation reads it)
MakeAction(args, kwargs, container, mutex, origin) ==
    LET cls == IF Get(kwargs, "action", "None") = "None" THEN "store" ELSE kwargs["action"]
        flag == cls \in {"store_true", "store_false"}
    IN  [option_strings |-> args,
         dest |-> IF "dest" \in DOMAIN kwargs THEN kwargs["dest"] ELSE DestOf(args),
         action |-> cls,
         type |-> IF flag THEN "None" ELSE Get(kwargs, "type", "None"),
         nargs |-> IF flag THEN "0" ELSE Get(kwargs, "nargs", "None"),
         choices |-> Get(kwargs, "choices", None),
         default |-> IF "default" \in DOMAIN kwargs THEN kwargs["default"]
                     ELSE IF cls = "store_true" THEN VBool(FALSE)
                     ELSE IF cls = "store_false" THEN VBool(TRUE)
                     ELSE VNone,
         required |-> Get(kwargs, "required", FALSE),
         container |-> container, mutex |-> mutex, origin |-> origin]

\* add_argument registering the option whatever flags are already taken
add_argument_unchecked(st, container, mutex, args, kwargs, origin) ==
    [st EXCEPT !.parser.actions = Append(@, MakeAction(args, kwargs, container, mutex, origin))]

\* container.add_argument(*args, **kwargs) on the build state st
add_argument(st, container, mutex, args, kwargs, origin) ==
    IF Conflicts(st.parser, args) THEN [st EXCEPT !.raised = TRUE]
    ELSE [st EXCEPT !.parser.actions = Append(@, MakeAction(args, kwargs, container, mutex, origin))]

\* ------------------------------------------------------------------ parse.py

\* typing.get_origin of the annotation
get_origin(annotation) ==
    CASE annotation \in {"list", "set", "dict", "tuple"} -> annotation
      [] annotation = "literal" -> "Literal"
      [] annotation \in {"union", "optrecord"} -> "Union"
      [] OTHER -> "None"

\* the nargs of a list, set or mapping field
ManyNargs(field) == IF field.required THEN "+" ELSE "*"

\* _parse_shape_args: the add_argument kwargs the declared type decides
_parse_shape_args(field) ==
    LET origin == get_origin(field.annotation)
        kwargs == ("type" :> field.annotation)
    IN  CASE field.annotation = "None" -> ("type" :> "str")
          [] origin \in {"list", "set"} -> ("type" :> field.targs[1]) @@ ("nargs" :> ManyNargs(field))
          [] origin = "dict" ->
                ("action" :> "StoreKeywordParam") @@ ("type" :> "str") @@ ("nargs" :> ManyNargs(field))
          [] origin = "tuple" -> ("type" :> field.targs[1]) @@ ("nargs" :> ToString(Len(field.targs)))
          [] origin = "type" /\ field.annotation = "enum" -> ("choices" :> field.targs) @@ kwargs
          [] origin = "Literal" -> ("choices" :> field.targs)
          [] origin = "Union" -> ("type" :> "str")
          [] OTHER -> kwargs

\* get_cli_names: the declared "cli" list object itself when there is one
get_cli_names(name, field, cli, model_config, naming_separator, prefix) ==
    LET names == _get_extra(field, cli, model_config, "cli", None)
    IN  IF names # None THEN names
        ELSE (IF field.alias # None
              THEN <<prefix \o replace(field.alias, Underscore, naming_separator)>>
              ELSE <<>>)
             \o <<prefix \o replace(name, Underscore, naming_separator)>>

\* a group that does not require one of its options
add_mutually_exclusive_group_optional(st, container) ==
    [st EXCEPT !.parser.mutex = Append(@, [required |-> FALSE, container |-> container])]

\* parser.add_mutually_exclusive_group(required=True) on container
add_mutually_exclusive_group(st, container) ==
    [st EXCEPT !.parser.mutex = Append(@, [required |-> TRUE, container |-> container])]

p_enable == <<"-", "-", "e", "n", "a", "b", "l", "e">>
p_disable == <<"-", "-", "d", "i", "s", "a", "b", "l", "e">>

\* _add_both_options
\* _add_both_options registering the enable option only
_add_both_options_enable_only(st, container, name, field, kwargs, config, naming_separator, origin) ==
    add_argument(add_mutually_exclusive_group(st, container), container, Len(st.parser.mutex) + 1,
        get_cli_names(name, field, st.cli, config, naming_separator,
            _get_extra(field, st.cli, config, "cli_enable_prefix", p_enable \o <<Dash>>)),
        ("action" :> "store_true") @@ kwargs, origin)

\* _add_both_options
_add_both_options(st, container, name, field, kwargs, config, naming_separator, origin) ==
    LET st1 == add_mutually_exclusive_group(st, container)
        mutual == Len(st1.parser.mutex)
        en == get_cli_names(name, field, st.cli, config, naming_separator,
                  _get_extra(field, st.cli, config, "cli_enable_prefix", p_enable \o <<Dash>>))
        st2 == add_argument(st1, container, mutual, en, ("action" :> "store_true") @@ kwargs, origin)
        dis == get_cli_names(name, field, st.cli, config, naming_separator,
                  _get_extra(field, st.cli, config, "cli_disable_prefix", p_disable \o <<Dash>>))
    IN  IF st2.raised THEN st2
        ELSE add_argument(st2, container, mutual, dis, ("action" :> "store_false") @@ kwargs, origin)

\* _add_either_option giving the enable flag to a field that defaults to true
\* and the disable flag to one that defaults to false
_add_either_option_swapped(st, container, name, field, kwargs, config, naming_separator, origin) ==
    IF kwargs["default"] # VBool(TRUE)
    THEN add_argument(st, container, 0,
             get_cli_names(name, field, st.cli, config, naming_separator,
                 _get_extra(field, st.cli, config, "cli_disable_prefix", p_disable \o naming_separator)),
             ("action" :> "store_false") @@ kwargs, origin)
    ELSE add_argument(st, container, 0,
             get_cli_names(name, field, st.cli, config, naming_separator,
                 _get_extra(field, st.cli, config, "cli_enable_prefix", p_enable \o naming_separator)),
             ("action" :> "store_true") @@ kwargs, origin)

\* _add_either_option
_add_either_option(st, container, name, field, kwargs, config, naming_separator, origin) ==
    IF kwargs["default"] = VBool(TRUE)
    THEN add_argument(st, container, 0,
             get_cli_names(name, field, st.cli, config, naming_separator,
                 _get_extra(field, st.cli, config, "cli_disable_prefix", p_disable \o naming_separator)),
             ("action" :> "store_false") @@ kwargs, origin)
    ELSE add_argument(st, container, 0,
             get_cli_names(name, field, st.cli, config, naming_separator,
                 _get_extra(field, st.cli, config, "cli_enable_prefix", p_enable \o naming_separator)),
             ("action" :> "store_true") @@ kwargs, origin)

\* f"-{args[0].strip('-')[0]}"
truncate_arg_of(args) == <<Dash, strip(args[1], Dash)[1]>>

\* the nested-record test of build_parser_impl: isinstance(annotation, type)
\* and issubclass(annotation, BaseModel)
is_nested_model(field) == field.annotation = "record"

\* the name_prefix handed to the recursive call for the nested field name
nested_name_prefix(name_prefix, name) ==
    IF name_prefix # None THEN join(<<Dot>>, <<name_prefix, name>>) \o <<Dot>>
    ELSE name \o <<Dot>>

\* the name_prefix the loop goes on with after the recursive call
\* (orig_name_prefix, which is set to None before the call)
restored_name_prefix(name_prefix) == None

\* whether the short flag is appended: auto_truncate and not yet in the list
claims_truncate(auto_truncate, truncate_arg, exist_truncate_args) ==
    auto_truncate /\ ~In(truncate_arg, exist_truncate_args)

\* the group (0: the parser itself) the field's option goes to, creating it on
\* first use in this call: [st, loc, container]
group_of(st, loc, groups, name) ==
    IF name \notin DOMAIN groups THEN [st |-> st, loc |-> loc, container |-> 0]
    ELSE IF groups[name] \in DOMAIN loc.cache_parsers
    THEN [st |-> st, loc |-> loc, container |-> loc.cache_parsers[groups[name]]]
    ELSE LET st1 == [st EXCEPT !.parser.groups = Append(@, groups[name])]
             g == Len(st1.parser.groups)
         IN  [st |-> st1, container |-> g,
              loc |-> [loc EXCEPT !.cache_parsers = (groups[name] :> g) @@ @]]

\* the "default case for other types" branch of the loop body
add_plain_option(st, loc, model, field, a, container, kwargs) ==
    LET names == get_cli_names(field.name, field, st.cli, ModelConfig(model), a.naming_separator,
                     <<Dash, Dash>> \o loc.name_prefix)
        aliased == _get_extra(field, st.cli, ModelConfig(model), "cli", None) # None
        truncate_arg == truncate_arg_of(names)
        claim == claims_truncate(a.auto_truncate, truncate_arg, st.exist)
        args == IF claim THEN Append(names, truncate_arg) ELSE names
        st1 == [st EXCEPT !.exist = IF claim THEN Append(@, truncate_arg) ELSE @,
                          !.cli = IF aliased /\ field.cli_key # ""
                                  THEN [@ EXCEPT ![field.cli_key] = args] ELSE @]
    IN  add_argument(st1, container, 0, args, ("required" :> field.required) @@ kwargs,
            Append(a.path, field.name))

RECURSIVE build_parser_impl(_, _, _, _)
RECURSIVE build_fields(_, _, _, _, _)

\* one iteration of the loop of build_parser_impl: [st, loc]
build_field(st, loc, model, field, a) ==
    IF In(field.name, a.excludes) THEN [st |-> st, loc |-> loc]
    ELSE IF a.parse_nested_model /\ is_nested_model(field)
    THEN [st |-> build_parser_impl(st, field.sub,
                     [a EXCEPT !.groupby_inherit = TRUE, !.auto_truncate = TRUE,
                               !.action = "NestedFieldStoreAction",
                               !.path = Append(@, field.name)],
                     nested_name_prefix(loc.name_prefix, field.name)),
          loc |-> [loc EXCEPT !.name_prefix = restored_name_prefix(loc.name_prefix)]]
    ELSE LET kwargs1 == _parse_shape_args(field) @@ ("action" :> a.action)
             kwargs2 == IF ~field.required THEN ("default" :> field.default) @@ kwargs1 ELSE kwargs1
             groups == IF a.groupby_inherit THEN get_groupby_field_names(model) ELSE <<>>
             g == group_of(st, loc, groups, field.name)
             kwargs3 == ("help" :> None) @@ kwargs2
         IN  IF kwargs3["action"] = "None" /\ field.annotation = "bool"
             THEN LET kwargs4 == ("dest" :> field.name) @@ Del(kwargs3, "type")
                  IN  [st |-> IF field.required
                              THEN _add_both_options(g.st, g.container, field.name, field, kwargs4,
                                       ModelConfig(model), a.naming_separator, Append(a.path, field.name))
                              ELSE _add_either_option(g.st, g.container, field.name, field, kwargs4,
                                       ModelConfig(model), a.naming_separator, Append(a.path, field.name)),
                       loc |-> g.loc]
             ELSE [st |-> add_plain_option(g.st, g.loc, model, field, a, g.container, kwargs3),
                   loc |-> g.loc]

\* the loop of build_parser_impl from field i on; an exception ends it
build_fields(st, loc, model, i, a) ==
    IF st.raised \/ i > Len(get_model_field(model)) THEN st
    ELSE LET r == build_field(st, loc, model, get_model_field(model)[i], a)
         IN  build_fields(r.st, r.loc, model, i + 1, a)

\* build_parser_impl(parser, model, ..., name_prefix): st carries the parser, the
\* list object exclude_truncated_args (aliased by exist_truncate_args) and the
\* declared "cli" list objects
build_parser_impl(st, model, a, name_prefix) ==
    build_fields(st, [cache_parsers |-> <<>>, name_prefix |-> name_prefix], model, 1, a)

NoModel == "NoModel"

\* build_parser(parser, model, **kwargs)
\* build_parser opening an argument group also when it is given no model
build_parser_grouping(st, model, a) ==
    IF model # NoModel THEN build_parser_impl(st, model, a, None)
    ELSE [st EXCEPT !.parser.groups = Append(@, NoModel)]

build_parser(st, model, a) ==
    IF model # NoModel THEN build_parser_impl(st, model, a, None) ELSE st

\* ------------------------------------------------------------------ parse_args
\* parser.parse_args(argv) for an argv of option occurrences: each a registered
\* flag followed by the value tokens it consumes.

\* the namespace before any token is consumed: every dest gets its action's
\* default, the first action of a dest winning; the help action stores nothing
RECURSIVE namespace_defaults(_, _, _)
namespace_defaults(actions, i, values) ==
    IF i > Len(actions) THEN values
    ELSE namespace_defaults(actions, i + 1,
             IF actions[i].action = "help" \/ actions[i].dest \in DOMAIN values THEN values
             ELSE (actions[i].dest :> actions[i].default) @@ values)

\* NestedFieldStoreAction.__init__: self._field_names (dest is never None here)
nested_field_names(action) == split(action.dest, Dot)

RECURSIVE nested_assign(_, _, _, _)
\* the loop "for field_name in self._field_names[1:]: field[field_name] = ..."
nested_assign(field, names, i, v) ==
    IF i > Len(names) THEN field
    ELSE nested_assign((names[i] :> v) @@ field, names, i + 1, v)

\* NestedFieldStoreAction.__call__ on the namespace values: [raised, values]
nested_store(values, action, v) ==
    LET names == nested_field_names(action)
        values1 == IF Get(values, names[1], VNone).t = "none"
                   THEN (names[1] :> VDict(<<>>)) @@ values ELSE values
        field == values1[names[1]]
    IN  IF Len(names) = 1 THEN [raised |-> FALSE, values |-> values1]
        ELSE IF field.t # "dict" THEN [raised |-> TRUE, values |-> values1]
        ELSE [raised |-> FALSE,
              values |-> (names[1] :> VDict(nested_assign(field.v, names, 2, v))) @@ values1]

RECURSIVE keyword_params(_, _, _)
\* the loop of StoreKeywordParam.__call__ over values: [raised, d]
keyword_params(d, vals, k) ==
    IF k > Len(vals) THEN [raised |-> FALSE, d |-> d]
    ELSE LET parts == split(vals[k], "=")
         IN  IF Len(parts) < 2 THEN [raised |-> TRUE, d |-> d]
             ELSE keyword_params((parts[1] :> VStr(join(<<"=">>, Tail(parts)))) @@ d, vals, k + 1)

\* StoreKeywordParam.__call__ on the namespace values: [raised, values].  The
\* dict the namespace holds is updated in place, so the entries set before a
\* raise stay; a namespace value of None is replaced by a new dict at the end.
store_keyword_param(values, action, vals) ==
    LET param_dict == IF values[action.dest].t = "none" THEN <<>> ELSE values[action.dest].v
        r == keyword_params(param_dict, vals, 1)
    IN  [raised |-> r.raised,
         values |-> IF r.raised /\ values[action.dest].t = "none" THEN values
                    ELSE (action.dest :> VDict(r.d)) @@ values]

\* the index of the action that registered the flag, 0 when none did
ActionOf(parser, flag) ==
    IF flag \in OptionStrings(parser)
    THEN CHOOSE i \in 1..Len(parser.actions) : In(flag, parser.actions[i].option_strings)
    ELSE 0

\* one option occurrence consumed: acc is [status, values, seen]
consume_one(parser, item, acc) ==
    LET i == ActionOf(parser, item.flag)
        action == parser.actions[i]
        clash == action.mutex # 0 /\ \E j \in acc.seen : j # i /\ parser.actions[j].mutex = action.mutex
        v == IF action.nargs = "0" THEN VBool(action.action = "store_true")
             ELSE Coerce(action.type, item.vals[1])
        seen == acc.seen \cup {i}
    IN  IF i = 0 \/ action.action = "help" THEN [acc EXCEPT !.status = "error"]
        ELSE IF clash THEN [acc EXCEPT !.status = "error"]
        ELSE IF action.nargs # "0" /\ \E k \in 1..Len(item.vals) : CoerceFails(action.type, item.vals[k])
        THEN [acc EXCEPT !.status = "error"]
        ELSE IF action.choices # None /\ \E k \in 1..Len(item.vals) : ~In(item.vals[k], action.choices)
        THEN [acc EXCEPT !.status = "error"]
        ELSE IF action.action = "StoreKeywordParam"
        THEN LET r == store_keyword_param(acc.values, action, item.vals)
             IN  [status |-> IF r.raised THEN "raised" ELSE "ok", values |-> r.values, seen |-> seen]
        ELSE IF action.action = "NestedFieldStoreAction"
        THEN LET r == nested_store(acc.values, action, v)
             IN  [status |-> IF r.raised THEN "raised" ELSE "ok", values |-> r.values, seen |-> seen]
        ELSE [status |-> "ok", values |-> (action.dest :> v) @@ acc.values, seen |-> seen]

RECURSIVE consume(_, _, _, _)
consume(parser, argv, k, acc) ==
    IF k > Len(argv) \/ acc.status # "ok" THEN acc
    ELSE consume(parser, argv, k + 1, consume_one(parser, argv[k], acc))

\* a required option, or every option of a required mutually exclusive group,
\* is missing from the command line
MissingRequired(parser, seen) ==
    \/ \E i \in 1..Len(parser.actions) : parser.actions[i].required /\ i \notin seen
    \/ \E g \in 1..Len(parser.mutex) :
          /\ parser.mutex[g].required
          /\ \A i \in 1..Len(parser.actions) : parser.actions[i].mutex = g => i \notin seen

\* parse_args: status "ok" with the namespace, "error" when the parser reports
\* a usage error and exits, "raised" when an exception escapes an action
parse_args(parser, argv) ==
    LET acc == consume(parser, argv, 1,
                   [status |-> "ok", values |-> namespace_defaults(parser.actions, 1, <<>>), seen |-> {}])
    IN  IF acc.status # "ok" THEN [status |-> acc.status, argv |-> argv, values |-> <<>>]
        ELSE IF MissingRequired(parser, acc.seen) THEN [status |-> "error", argv |-> argv, values |-> <<>>]
        ELSE [status |-> "ok", argv |-> argv, values |-> acc.values]

\* the parser after parse_args(argv): the namespace starts with the default
\* objects themselves, so the dict that is the default of a StoreKeywordParam
\* option is the dict its __call__ updates
parser_after_parse(parser, argv) ==
    LET acc == consume(parser, argv, 1,
                   [status |-> "ok", values |-> namespace_defaults(parser.actions, 1, <<>>), seen |-> {}])
    IN  [parser EXCEPT !.actions =
            [i \in 1..Len(parser.actions) |->
                IF parser.actions[i].action = "StoreKeywordParam" /\ parser.actions[i].default.t = "dict"
                THEN [parser.actions[i] EXCEPT !.default = acc.values[parser.actions[i].dest]]
                ELSE parser.actions[i]]]

\* the value tokens of the command lines
Tokens == {<<"x">>, <<"5">>}

\* the value tokens given to an option whose type is bool
s_true == <<"t", "r", "u", "e">>
BoolTokens == {s_true, <<>>}

\* the token lists given to an option that takes one or more tokens
TokenLists == {<<t>> : t \in {<<"k", "=", "5">>, <<"x">>}} \cup {<<<<"k", "=", "5">>, <<"x">>>>}

\* the option occurrences a command line for this parser is made of: the
\* canonical flag of every option with the tokens it consumes
ArgItems(parser) ==
    UNION {IF parser.actions[i].action = "help" THEN {}
           ELSE IF parser.actions[i].nargs = "0"
           THEN {[flag |-> parser.actions[i].option_strings[1], vals |-> <<>>]}
           ELSE IF parser.actions[i].nargs \in {"+", "*"}
           THEN {[flag |-> parser.actions[i].option_strings[1], vals |-> ts] : ts \in TokenLists}
           ELSE IF parser.actions[i].type = "bool"
           THEN {[flag |-> parser.actions[i].option_strings[1], vals |-> <<t>>] : t \in BoolTokens}
           ELSE {[flag |-> parser.actions[i].option_strings[1], vals |-> <<t>>] : t \in Tokens} :
           i \in 1..Len(parser.actions)}

Argvs(parser) == UNION {[1..n -> ArgItems(parser)] : n \in 0..MaxArgs}

\* ------------------------------------------------------------------ build_parser calls

\* the key None of _registry, under which the top-level command is registered
NoneKey == "<None>"

\* no parse_args call made on the current parser yet
NoParse == [status |-> "none", argv |-> <<>>, values |-> <<>>]

s_h == <<"-", "h">>

\* the keyword arguments of a build_parser call; excl names the list object
\* passed as exclude_truncated_args: "default" when the caller passes none
Kw(excl, auto_truncate, groupby_inherit, parse_nested_model, naming_separator, excludes) ==
    [excl |-> excl, auto_truncate |-> auto_truncate, groupby_inherit |-> groupby_inherit,
     parse_nested_model |-> parse_nested_model, naming_separator |-> naming_separator,
     excludes |-> excludes]

KwDefault == Kw("default", TRUE, TRUE, TRUE, <<Dash>>, <<>>)

KwCaller == Kw("caller", TRUE, TRUE, TRUE, <<Dash>>, <<>>)

KwNoTruncate == Kw("caller", FALSE, TRUE, TRUE, <<Dash>>, <<>>)

KwUnderscore == Kw("caller", TRUE, TRUE, TRUE, <<Underscore>>, <<>>)

KwFlat == Kw("caller", TRUE, FALSE, FALSE, <<Dash>>, <<>>)

KwExcludes == Kw("caller", TRUE, FALSE, TRUE, <<Dash>>, <<s_child, s_alpha>>)

\* excludes=[...] with the other keyword arguments as in KwCaller
KwSkip(excludes) == Kw("caller", TRUE, TRUE, TRUE, <<Dash>>, excludes)

\* the build_parser calls the caller may make: <<model, keyword arguments>>
BuildCalls ==
    {<<"Flat", KwDefault>>, <<"Flat", KwCaller>>, <<"Flat", KwExcludes>>,
     <<"Config", KwDefault>>, <<"Config", KwUnderscore>>, <<"Config", KwFlat>>,
     <<"Deep", KwCaller>>, <<"Pair", KwNoTruncate>>, <<"Child", KwCaller>>,
     <<"Bools", KwCaller>>, <<"Named", KwCaller>>, <<NoModel, KwDefault>>}

\* build_parser not handing excludes on to build_parser_impl
ImplArgs_no_excludes(kw) ==
    [excludes |-> <<>>, auto_truncate |-> kw.auto_truncate,
     groupby_inherit |-> kw.groupby_inherit, parse_nested_model |-> kw.parse_nested_model,
     naming_separator |-> kw.naming_separator, action |-> "None", path |-> <<>>]

\* the arguments build_parser_impl receives from build_parser(parser, model, **kw)
ImplArgs(kw) ==
    [excludes |-> kw.excludes, auto_truncate |-> kw.auto_truncate,
     groupby_inherit |-> kw.groupby_inherit, parse_nested_model |-> kw.parse_nested_model,
     naming_separator |-> kw.naming_separator, action |-> "None", path |-> <<>>]

\* no build_parser call made yet: the parser is as constructed
NoBuild == [model |-> NoModel, kw |-> KwCaller, excl_in |-> <<s_h>>, parser |-> NewParser, raised |-> FALSE]

\* build_parser(ArgumentParser(), model, **kw): the whole call; cur records the
\* call (excl_in: what the exclusion list held when the call was made), the
\* parser it worked on and whether it raised
Build(model, kw) ==
    LET st0 == [parser |-> NewParser,
                exist |-> IF kw.excl = "default" THEN default_excl ELSE caller_excl,
                cli |-> cli_decl, raised |-> FALSE]
        r == build_parser(st0, model, ImplArgs(kw))
    IN  /\ prev' = cur
        /\ cur' = [model |-> model, kw |-> kw, excl_in |-> st0.exist, parser |-> r.parser,
                   raised |-> r.raised]
        /\ default_excl' = IF kw.excl = "default" THEN r.exist ELSE default_excl
        /\ caller_excl' = IF kw.excl = "caller" THEN r.exist ELSE caller_excl
        /\ cli_decl' = r.cli
        /\ builds' = builds + 1
        /\ ns' = NoParse
        /\ UNCHANGED <<registry, invoked, cli_result>>

BuildParser ==
    \E call \in BuildCalls :
        builds < MaxBuilds /\ Build(call[1], call[2])

\* the caller makes a new list to pass as exclude_truncated_args
NewCallerList ==
    \E list \in {<<s_h>>, <<>>} :
        /\ caller_excl # list
        /\ caller_excl' = list
        /\ UNCHANGED <<registry, invoked, cli_result, default_excl, cli_decl, prev, cur, builds, ns>>

Init ==
    /\ registry = <<>>
    /\ invoked = <<>>
    /\ cli_result = [op |-> "none", name |-> NoneKey, func |-> "", outcome |-> "returned", cmd |-> ""]
    /\ default_excl = <<s_h>>
    /\ caller_excl = <<s_h>>
    /\ cli_decl = CliDeclared
    /\ prev = NoBuild
    /\ cur = NoBuild
    /\ builds = 0
    /\ ns = NoParse

Next == BuildParser \/ NewCallerList

\* the build_parser calls whose parsers are then used to parse command lines
ParseCalls ==
    {<<"Pair", KwCaller>>, <<"Child", KwCaller>>, <<"Deep", KwCaller>>, <<"Bools", KwCaller>>,
     <<"Config", KwCaller>>, <<"Toggles", KwCaller>>, <<"Shell", KwCaller>>,
     <<"Aliased", KwCaller>>, <<"Aliased", KwUnderscore>>,
     <<"Tagged", KwCaller>>, <<"Opts", KwCaller>>, <<"Modes", KwCaller>>,
     <<"Derived", KwCaller>>, <<"Multi", KwCaller>>,
     <<"Pair", KwSkip(<<s_child>>)>>, <<"Pair", KwSkip(<<s_name>>)>>, <<"Multi", KwSkip(<<s_tag>>)>>,
     <<"Child", KwUnderscore>>, <<"Toggles", KwUnderscore>>, <<"Twins", KwCaller>>,
     <<"Hall", KwCaller>>, <<"House", KwCaller>>,
     <<"Kid", KwNoTruncate>>, <<"Pair", KwNoTruncate>>, <<"Params", KwCaller>>}

BuildToParse ==
    \E call \in ParseCalls :
        builds = 0 /\ Build(call[1], call[2])

\* the first parser.parse_args(argv) on the parser of the last build_parser call
ParseArgs ==
    \E argv \in Argvs(cur.parser) :
        /\ builds > 0
        /\ ns.status = "none"
        /\ ~cur.raised
        /\ ns' = parse_args(cur.parser, argv)
        /\ cur' = [cur EXCEPT !.parser = parser_after_parse(cur.parser, argv)]
        /\ UNCHANGED <<registry, invoked, cli_result, default_excl, caller_excl, cli_decl, prev, builds>>

\* parser.parse_args(argv) called again on the same parser, with the command
\* line of the parse before or with an empty one
ParseAgain ==
    \E argv \in {ns.argv, <<>>} :
        /\ builds > 0
        /\ ns.status # "none"
        /\ ~cur.raised
        /\ ns' = parse_args(cur.parser, argv)
        /\ cur' = [cur EXCEPT !.parser = parser_after_parse(cur.parser, argv)]
        /\ UNCHANGED <<registry, invoked, cli_result, default_excl, caller_excl, cli_decl, prev, builds>>

NextParse == BuildToParse \/ ParseArgs \/ ParseAgain

SpecParse == Init /\ [][NextParse]_vars

Spec == Init /\ [][Next]_vars

\* ------------------------------------------------------------------ cli.py
\* _registry is a dict in insertion order: a sequence of [name, handler]
\* entries with distinct names.

CommandNames == {"launch1", "launch2"}

Handlers == {"f", "g"}

\* get_command_model: the annotation of the handler's first parameter, None
\* for a handler without parameters
get_command_model(func) == IF func = "f" THEN "Leaf" ELSE NoModel

\* name in _registry
HasKey(reg, name) == \E i \in 1..Len(reg) : reg[i].name = name

\* _registry[name]
Lookup(reg, name) == reg[CHOOSE i \in 1..Len(reg) : reg[i].name = name].handler

\* command(func): [registry, raised]
command(reg, func) ==
    IF Len(reg) > 0
    THEN IF HasKey(reg, NoneKey) /\ Lookup(reg, NoneKey) = func
         THEN [registry |-> reg, raised |-> FALSE]
         ELSE [registry |-> reg, raised |-> TRUE]
    ELSE [registry |-> Append(reg, [name |-> NoneKey, handler |-> func]), raised |-> FALSE]

\* sub_command refusing every name that is taken, whoever holds it
sub_command_once(reg, name, func) ==
    IF HasKey(reg, name) THEN [registry |-> reg, raised |-> TRUE]
    ELSE [registry |-> Append(reg, [name |-> name, handler |-> func]), raised |-> FALSE]

\* sub_command storing the handler before it finds the name taken
sub_command_overwriting(reg, name, func) ==
    IF HasKey(reg, name) /\ Lookup(reg, name) # func
    THEN [registry |-> [i \in 1..Len(reg) |->
                           IF reg[i].name = name THEN [name |-> name, handler |-> func] ELSE reg[i]],
          raised |-> TRUE]
    ELSE IF HasKey(reg, name) THEN [registry |-> reg, raised |-> FALSE]
    ELSE [registry |-> Append(reg, [name |-> name, handler |-> func]), raised |-> FALSE]

\* sub_command(name)(func): [registry, raised]
sub_command(reg, name, func) ==
    IF HasKey(reg, name)
    THEN IF Lookup(reg, name) = func
         THEN [registry |-> reg, raised |-> FALSE]
         ELSE [registry |-> reg, raised |-> TRUE]
    ELSE [registry |-> Append(reg, [name |-> name, handler |-> func]), raised |-> FALSE]

RECURSIVE build_subparsers(_, _, _)
\* the loop of main over _registry.items(): one subparser per command, each
\* built with the default keyword arguments; acc is [st, parsers]
build_subparsers(reg, i, acc) ==
    IF i > Len(reg) \/ acc.st.raised THEN acc
    ELSE LET st1 == build_parser([acc.st EXCEPT !.parser = NewParser],
                        get_command_model(reg[i].handler), ImplArgs(KwDefault))
         IN  build_subparsers(reg, i + 1,
                 [st |-> st1, parsers |-> (reg[i].name :> st1.parser) @@ acc.parsers])

\* model_type(**kwargs): whether pydantic accepts the parsed values (every
\* required field of the flat model has a value)
model_validate_ok(model, values) ==
    \A i \in 1..Len(get_model_field(model)) :
        get_model_field(model)[i].required =>
            /\ get_model_field(model)[i].name \in DOMAIN values
            /\ values[get_model_field(model)[i].name].t # "none"

\* pydantic's validation of one input value against a scalar annotation:
\* [ok, v] (a decimal string is accepted for an int, nothing else is converted)
validate_scalar(annotation, x) ==
    CASE annotation = "int" /\ x.t = "int" -> [ok |-> TRUE, v |-> x]
      [] annotation = "int" /\ x.t = "str" /\ IsInt(x.v) -> [ok |-> TRUE, v |-> VInt(int_acc(x.v, 0))]
      [] annotation = "str" /\ x.t = "str" -> [ok |-> TRUE, v |-> x]
      [] annotation = "bool" /\ x.t = "bool" -> [ok |-> TRUE, v |-> x]
      [] OTHER -> [ok |-> FALSE, v |-> VNone]

RECURSIVE model_validate(_, _)
\* model_type(**kwargs): [ok, v], v mapping each field name to its validated
\* value (a nested mapping for a nested record); a field is read under its
\* alias when it has one, keys that name no field are ignored, a missing key
\* takes the field's default
model_validate(model, values) ==
    LET fields == get_model_field(model)
        key(field) == IF field.alias # None THEN field.alias ELSE field.name
        one(field) ==
            IF key(field) \notin DOMAIN values
            THEN [ok |-> ~field.required, v |-> field.default]
            ELSE IF ~field.required /\ values[key(field)] = field.default
            THEN [ok |-> TRUE, v |-> field.default]
            ELSE IF field.annotation \in {"record", "optrecord"}
            THEN IF values[key(field)].t = "dict"
                 THEN [ok |-> model_validate(field.sub, values[key(field)].v).ok,
                       v |-> VDict(model_validate(field.sub, values[key(field)].v).v)]
                 ELSE [ok |-> FALSE, v |-> VNone]
            ELSE validate_scalar(field.annotation, values[key(field)])
    IN  [ok |-> \A i \in 1..Len(fields) : one(fields[i]).ok,
         v |-> [n \in {fields[i].name : i \in 1..Len(fields)} |->
                   one(fields[CHOOSE i \in 1..Len(fields) : fields[i].name = n]).v]]

\* the lines of main after parse_args: _command and values are the namespace
dispatch(reg, command_name, values) ==
    IF ~HasKey(reg, command_name) THEN [outcome |-> "help", invoked |-> <<>>]
    ELSE LET callback == Lookup(reg, command_name)
             model_type == get_command_model(callback)
         IN  IF model_type # NoModel /\ ~model_validate_ok(model_type, values)
             THEN [outcome |-> "raised", invoked |-> <<>>]
             ELSE [outcome |-> "returned", invoked |-> <<callback>>]

\* the parser-building lines of main: [st, parsers, single], parsers mapping
\* each sub-command name to its subparser (the parser itself when single)
main_parsers(reg, exist, cli) ==
    LET st0 == [parser |-> NewParser, exist |-> exist, cli |-> cli, raised |-> FALSE]
        single == Len(reg) = 1 /\ HasKey(reg, NoneKey)
    IN  IF single
        THEN [st |-> build_parser(st0, get_command_model(Lookup(reg, NoneKey)), ImplArgs(KwDefault)),
              parsers |-> <<>>, single |-> TRUE]
        ELSE [st |-> build_subparsers(reg, 1, [st |-> st0, parsers |-> <<>>]).st,
              parsers |-> build_subparsers(reg, 1, [st |-> st0, parsers |-> <<>>]).parsers,
              single |-> FALSE]

\* args = parser.parse_args() for sys.argv = [prog, cmd, items...] (cmd "" when
\* no command is named)
main_parse(built, argv) ==
    IF built.single
    THEN IF argv.cmd = "" THEN parse_args(built.st.parser, argv.items)
         ELSE [status |-> "error", argv |-> argv.items, values |-> <<>>]
    ELSE IF argv.cmd = ""
    THEN IF argv.items = <<>> THEN [status |-> "ok", argv |-> <<>>, values |-> <<>>]
         ELSE [status |-> "error", argv |-> argv.items, values |-> <<>>]
    ELSE IF argv.cmd \in DOMAIN built.parsers
    THEN parse_args(built.parsers[argv.cmd], argv.items)
    ELSE [status |-> "error", argv |-> argv.items, values |-> <<>>]

\* main after the parsers are built and the command line is parsed
main_result(reg, built, parsed, argv) ==
    LET command_name == IF built.single \/ argv.cmd = "" THEN NoneKey ELSE argv.cmd
        d == dispatch(reg, command_name, parsed.values)
        rest == [registry |-> reg, exist |-> built.st.exist, cli |-> built.st.cli]
    IN  IF built.st.raised THEN [outcome |-> "raised", invoked |-> <<>>] @@ rest
        ELSE IF parsed.status # "ok"
        THEN [outcome |-> IF parsed.status = "error" THEN "exit" ELSE "raised", invoked |-> <<>>] @@ rest
        ELSE [outcome |-> d.outcome, invoked |-> d.invoked] @@ rest

\* main(): [outcome, invoked, registry, exist, cli].  The parsers and the parse
\* result are each bound to one value (a singleton set's element) before use.
main(reg, exist, cli, argv) ==
    CHOOSE r \in UNION {{main_result(reg, built, parsed, argv) : parsed \in {main_parse(built, argv)}} :
                           built \in {main_parsers(reg, exist, cli)}} : TRUE

\* the command lines given to main: an optional command name, then option
\* occurrences for the options of the handlers' models
MainArgvs ==
    {[cmd |-> c, items |-> items] :
        c \in {""} \cup CommandNames,
        items \in Argvs(build_parser([parser |-> NewParser, exist |-> <<s_h>>, cli |-> CliDeclared,
                                     raised |-> FALSE], "Leaf", ImplArgs(KwDefault)).parser)}

Command ==
    \E func \in Handlers :
        LET r == command(registry, func)
        IN  /\ registry' = r.registry
            /\ cli_result' = [op |-> "command", name |-> NoneKey, func |-> func,
                              outcome |-> IF r.raised THEN "raised" ELSE "returned", cmd |-> ""]
            /\ invoked' = <<>>
            /\ UNCHANGED <<default_excl, caller_excl, cli_decl, prev, cur, builds, ns>>

SubCommand ==
    \E name \in CommandNames, func \in Handlers :
        LET r == sub_command(registry, name, func)
        IN  /\ registry' = r.registry
            /\ cli_result' = [op |-> "sub_command", name |-> name, func |-> func,
                              outcome |-> IF r.raised THEN "raised" ELSE "returned", cmd |-> ""]
            /\ invoked' = <<>>
            /\ UNCHANGED <<default_excl, caller_excl, cli_decl, prev, cur, builds, ns>>

Main ==
    \E argv \in MainArgvs :
        \E r \in {main(registry, default_excl, cli_decl, argv)} :
            /\ registry' = r.registry
            /\ invoked' = r.invoked
            /\ cli_result' = [op |-> "main", name |-> NoneKey, func |-> "", outcome |-> r.outcome,
                              cmd |-> argv.cmd]
            /\ default_excl' = r.exist
            /\ cli_decl' = r.cli
            /\ UNCHANGED <<caller_excl, prev, cur, builds, ns>>

\* the functions given to entrypoint: "plain" is pre; yield; post, "guarded" is
\* pre; try: yield; finally: post
EntryFuncs == {"plain", "guarded"}

\* main() returned to its caller (after a handler, or after print_help)
MainReturned(outcome) == outcome \in {"returned", "help"}

\* the wrapper with the call of main placed before the with statement
entrypoint_main_first(func, r) ==
    [invoked |-> r.invoked \o <<"pre">> \o
                 (IF MainReturned(r.outcome) \/ func = "guarded" THEN <<"post">> ELSE <<>>),
     outcome |-> r.outcome]

\* the wrapper entrypoint returns, called once: "with _func(): main()", r being
\* what main does.  contextmanager runs the function up to its yield, then the
\* body; an exception or exit of the body is raised in the function at the
\* yield, so what follows the yield runs only inside a finally clause.
entrypoint(func, r) ==
    [invoked |-> <<"pre">> \o r.invoked \o
                 (IF MainReturned(r.outcome) \/ func = "guarded" THEN <<"post">> ELSE <<>>),
     outcome |-> r.outcome]

Entrypoint ==
    \E argv \in MainArgvs :
        \E r \in {main(registry, default_excl, cli_decl, argv)} :
            \E func \in EntryFuncs :
                \E e \in {entrypoint(func, r)} :
                    /\ registry' = r.registry
                    /\ invoked' = e.invoked
                    /\ cli_result' = [op |-> "entrypoint", name |-> NoneKey, func |-> func,
                                      outcome |-> e.outcome, cmd |-> argv.cmd]
                    /\ default_excl' = r.exist
                    /\ cli_decl' = r.cli
                    /\ UNCHANGED <<caller_excl, prev, cur, builds, ns>>

NextCli == Command \/ SubCommand \/ Main \/ Entrypoint

SpecCli == Init /\ [][NextCli]_vars

\* ------------------------------------------------------------------ claims: build_parser

\* the flag lists of a parser's options, in registration order
FlagLists(parser) == [i \in 1..Len(parser.actions) |-> parser.actions[i].option_strings]

\* the options build_parser_impl registers through its default branch
IsPlain(action) == action.action \in {"store", "NestedFieldStoreAction", "StoreKeywordParam"}

\* the field of the model at a path of field names
RECURSIVE FieldAt(_, _)
FieldAt(model, path) ==
    LET fields == get_model_field(model)
        f == fields[CHOOSE i \in 1..Len(fields) : fields[i].name = path[1]]
    IN  IF Len(path) = 1 THEN f ELSE FieldAt(f.sub, Tail(path))

\* the paths of the leaf fields of a model, nested records (the annotations in
\* nested) descended into
RECURSIVE LeafPaths(_, _)
LeafPaths(model, nested) ==
    UNION {IF get_model_field(model)[i].annotation \in nested
           THEN {<<get_model_field(model)[i].name>> \o p :
                    p \in LeafPaths(get_model_field(model)[i].sub, nested)}
           ELSE {<<get_model_field(model)[i].name>>} :
           i \in 1..Len(get_model_field(model))}

Excluded(path, excludes) == \E k \in 1..Len(path) : In(path[k], excludes)

\* '--f1.f2. ... .fk.<leaf>' with the leaf's underscores replaced by the separator
DottedFlag(path, naming_separator) ==
    <<Dash, Dash>> \o join(<<Dot>>, [k \in 1..Len(path) |->
        IF k = Len(path) THEN replace(path[k], Underscore, naming_separator) ELSE path[k]])

\* a build_parser call on a schema type has been made and returned
Built == builds > 0 /\ cur.model # NoModel /\ ~cur.raised

\* C1: two build_parser calls, each on a fresh parser, with the same schema and
\* the same arguments (the exclusion list defaulted both times, or supplied
\* with the same content) register the same flag lists in the same order.
C1_SameCallSameFlags ==
    (/\ builds >= 2
     /\ prev.model = cur.model
     /\ prev.kw = cur.kw
     /\ (cur.kw.excl = "caller" => prev.excl_in = cur.excl_in))
    => FlagLists(cur.parser) = FlagLists(prev.parser)

\* C3: every leaf of a nested record, at any depth and wherever it is declared,
\* is registered under '--f1.f2. ... .fk.<leaf>', and no option is registered
\* for the nested-record field itself.
C3_DottedCanonicalFlag ==
    (Built /\ cur.kw.parse_nested_model) =>
        /\ \A p \in LeafPaths(cur.model, {"record"}) :
              (Len(p) >= 2 /\ ~Excluded(p, cur.kw.excludes)) =>
                  \E i \in 1..Len(cur.parser.actions) :
                      cur.parser.actions[i].option_strings[1] = DottedFlag(p, cur.kw.naming_separator)
        /\ \A i \in 2..Len(cur.parser.actions) :
              FieldAt(cur.model, cur.parser.actions[i].origin).annotation # "record"

\* the prefix the precedence field-level override, schema-level prefix, global
\* default gives
PrefixByPrecedence(field, config, key, default) ==
    IF field.has_extra /\ key \in DOMAIN field.extra THEN field.extra[key]
    ELSE IF key \in DOMAIN config THEN config[key]
    ELSE default

\* C5: each of the two prefixes of a boolean field is, independently, the
\* field-level override if the field defines it, else the schema-level prefix
\* if the schema defines it, else the global default.
C5_PrefixPrecedence ==
    Built =>
        \A i \in 2..Len(cur.parser.actions) :
            LET action == cur.parser.actions[i]
                field == FieldAt(cur.model, action.origin)
                key == IF action.action = "store_true" THEN "cli_enable_prefix" ELSE "cli_disable_prefix"
                default == (IF action.action = "store_true" THEN p_enable ELSE p_disable) \o <<Dash>>
            IN  action.action \in {"store_true", "store_false"} =>
                    action.option_strings =
                        <<PrefixByPrecedence(field, ModelConfig(cur.model), key, default)
                          \o replace(field.name, Underscore, cur.kw.naming_separator)>>

\* C6: a field declared as Record | None is walked like a nested record: one
\* option '--<field>.<leaf>' per leaf, none of them required, and no option
\* '--<field>' for the field itself.
C6_OptionalRecordIsNested ==
    (Built /\ cur.kw.parse_nested_model) =>
        \A k \in 1..Len(get_model_field(cur.model)) :
            LET field == get_model_field(cur.model)[k]
            IN  (field.annotation = "optrecord" /\ ~In(field.name, cur.kw.excludes)) =>
                    /\ \A p \in LeafPaths(field.sub, {"record", "optrecord"}) :
                          \E i \in 1..Len(cur.parser.actions) :
                              /\ cur.parser.actions[i].option_strings[1] =
                                     DottedFlag(<<field.name>> \o p, cur.kw.naming_separator)
                              /\ ~cur.parser.actions[i].required
                    /\ \A i \in 1..Len(cur.parser.actions) :
                          cur.parser.actions[i].origin # <<field.name>>

\* the one-letter token an option derives
DerivedShort(action) == truncate_arg_of(action.option_strings)

\* the exclusion list the call was given: the caller's, or the default '-h'
ExclusionGiven == IF cur.kw.excl = "default" THEN <<s_h>> ELSE cur.excl_in

\* C7: in one build, a one-letter token is attached to the first non-boolean
\* field that derives it and to no later one, and a token of the exclusion list
\* the call was given (default '-h') is attached to no field.
C7_FirstComeFirstServed ==
    (Built /\ cur.kw.auto_truncate) =>
        \A i \in 2..Len(cur.parser.actions) :
            IsPlain(cur.parser.actions[i]) =>
                (In(DerivedShort(cur.parser.actions[i]), cur.parser.actions[i].option_strings)
                 <=> /\ ~In(DerivedShort(cur.parser.actions[i]), ExclusionGiven)
                     /\ \A j \in 2..(i - 1) :
                           IsPlain(cur.parser.actions[j]) =>
                               DerivedShort(cur.parser.actions[j]) # DerivedShort(cur.parser.actions[i]))

Parsed == builds > 0 /\ cur.model # NoModel /\ ~cur.raised /\ ns.status # "none"

\* the options of the parser that the command line gives
GivenOptions == {ActionOf(cur.parser, ns.argv[k].flag) : k \in 1..Len(ns.argv)}

\* the token of the last occurrence of option i on the command line
LastToken(i) ==
    ns.argv[CHOOSE k \in 1..Len(ns.argv) :
                /\ ActionOf(cur.parser, ns.argv[k].flag) = i
                /\ \A m \in (k + 1)..Len(ns.argv) : ActionOf(cur.parser, ns.argv[m].flag) # i].vals[1]

\* the value found by following a path of keys from the namespace down
\* through nested dictionaries
RECURSIVE PathValue(_, _)
PathValue(d, path) ==
    IF path[1] \notin DOMAIN d THEN [found |-> FALSE, v |-> VNone]
    ELSE IF Len(path) = 1 THEN [found |-> TRUE, v |-> d[path[1]]]
    ELSE IF d[path[1]].t = "dict" THEN PathValue(d[path[1]].v, Tail(path))
    ELSE [found |-> FALSE, v |-> VNone]

\* C2: after a successful parse, the leaf at path p1.p2. ... .pn (n >= 2) that
\* the command line gives a value holds that value, converted to the leaf's
\* type, at namespace[p1][p2]...[pn], and a leaf the command line omits has no
\* key there.
C2_NestedStoreAtPath ==
    (Parsed /\ ns.status = "ok") =>
        \A i \in 2..Len(cur.parser.actions) :
            Len(cur.parser.actions[i].origin) >= 2 =>
                IF i \in GivenOptions
                THEN PathValue(ns.values, cur.parser.actions[i].origin) =
                         [found |-> TRUE, v |-> Coerce(cur.parser.actions[i].type, LastToken(i))]
                ELSE ~PathValue(ns.values, cur.parser.actions[i].origin).found

\* the options of the given kind registered for the field at a path
FlagOptions(path, kind) ==
    {i \in 1..Len(cur.parser.actions) :
        cur.parser.actions[i].origin = path /\ cur.parser.actions[i].action = kind}

\* the enable/disable pair of the boolean field at a path behaves as a
\* required, mutually exclusive pair on the parsed command line
RequiredPair(path) ==
    LET on == FlagOptions(path, "store_true")
        off == FlagOptions(path, "store_false")
        gave_on == on \cap GivenOptions # {}
        gave_off == off \cap GivenOptions # {}
        name == path[Len(path)]
    IN  /\ Cardinality(on) = 1
        /\ Cardinality(off) = 1
        /\ \A i \in on \cup off : cur.parser.actions[i].dest = name
        /\ Parsed =>
              /\ (~gave_on /\ ~gave_off) => ns.status = "error"
              /\ (gave_on /\ gave_off) => ns.status = "error"
              /\ ns.status = "ok" => ns.values[name] = VBool(gave_on)

NoDefaultBoolean(path) ==
    FieldAt(cur.model, path).annotation = "bool" /\ FieldAt(cur.model, path).required

\* C4, as stated: every boolean field with no default, the leaves of nested
\* records included, has an enable flag and a disable flag of which exactly one
\* must be given, storing true or false under the field name.
C4_EveryBooleanPair ==
    Built => \A p \in LeafPaths(cur.model, {"record"}) : NoDefaultBoolean(p) => RequiredPair(p)

\* C4: every boolean field with no default that is a direct field of the schema
\* given to build_parser has an enable flag and a disable flag; a command line
\* giving neither is rejected, one giving both is rejected, and an accepted
\* one gave exactly one of them and stores true for the enable flag, false for
\* the disable flag, under the field name.
C4_TopLevelBooleanPair ==
    Built => \A p \in LeafPaths(cur.model, {"record"}) :
                 (Len(p) = 1 /\ NoDefaultBoolean(p)) => RequiredPair(p)

\* C4 witness: an accepted command line that gave the disable flag of the one
\* boolean field of Child, and stored false for it
C4_Witness ==
    /\ Parsed
    /\ cur.model = "Child"
    /\ ns.status = "ok"
    /\ FlagOptions(<<s_is_active>>, "store_false") \cap GivenOptions # {}
    /\ ns.values[s_is_active] = VBool(FALSE)

\* ------------------------------------------------------------------ claims: command, sub_command, main

\* the registration just attempted names a key that holds another handler
SecondHandler(reg, result) ==
    /\ result.op \in {"command", "sub_command"}
    /\ HasKey(reg, result.name)
    /\ Lookup(reg, result.name) # result.func

\* C9: registering a second top-level command with a different handler, or an
\* already used sub-command name with a different handler, raises an error
\* and leaves the registry as it was.
C9_RejectedRegistration ==
    [][SecondHandler(registry, cli_result') => (cli_result'.outcome = "raised" /\ registry' = registry)]_vars

\* C9 witness: a registration was rejected for a key that still holds the
\* other handler
C9_Witness ==
    /\ SecondHandler(registry, cli_result)
    /\ cli_result.op = "sub_command"
    /\ cli_result.outcome = "raised"

\* C10: a main call invokes at most one handler: the top-level handler if the
\* registry holds a top-level command, otherwise the handler of the sub-command
\* the command line names, and none when it names no sub-command.
C10_MainDispatch ==
    cli_result.op = "main" =>
        /\ Len(invoked) <= 1
        /\ IF cli_result.cmd = ""
           THEN invoked # <<>> => (Len(registry) = 1 /\ invoked = <<Lookup(registry, NoneKey)>>)
           ELSE invoked # <<>> => invoked = <<Lookup(registry, cli_result.cmd)>>
        /\ (cli_result.outcome = "returned" /\ HasKey(registry, NoneKey) /\ Len(registry) = 1)
               => invoked = <<Lookup(registry, NoneKey)>>
        /\ (cli_result.outcome = "returned" /\ cli_result.cmd # "") =>
               invoked = <<Lookup(registry, cli_result.cmd)>>

\* ------------------------------------------------------------------ claims: entrypoint

\* the positions of invoked holding the given entry
Positions(x) == {k \in 1..Len(invoked) : invoked[k] = x}

\* the pre-yield section runs first and once, at most one handler runs and
\* only after it, and the post-yield section, if it runs, runs once and last
SectionsInOrder ==
    /\ Positions("pre") = {1}
    /\ Cardinality({k \in 1..Len(invoked) : invoked[k] \in Handlers}) <= 1
    /\ Cardinality(Positions("post")) <= 1
    /\ \A k \in Positions("post") : k = Len(invoked)
    /\ cli_result.outcome = "returned" => \E k \in 2..Len(invoked) : invoked[k] \in Handlers

\* C11, as stated: every call of a function wrapped with entrypoint runs the
\* pre-yield section, then main, then the post-yield section, each once.
C11_PreMainPostAlways ==
    cli_result.op = "entrypoint" => (SectionsInOrder /\ Positions("post") # {})

\* C11: a call of a function wrapped with entrypoint runs the pre-yield section
\* once and first, then main (its handler never before the pre-yield section),
\* and, when main returns, the post-yield section once and last; when main
\* raises or exits, the post-yield section runs only if the function put it
\* in a finally clause around its yield.
C11_PreMainPost ==
    cli_result.op = "entrypoint" =>
        /\ SectionsInOrder
        /\ MainReturned(cli_result.outcome) => Positions("post") # {}
        /\ (~MainReturned(cli_result.outcome) /\ cli_result.func = "plain") => Positions("post") = {}

\* C11 witness: a call that ran the pre-yield section, one handler and the
\* post-yield section, in this order
C11_Witness ==
    /\ cli_result.op = "entrypoint"
    /\ cli_result.outcome = "returned"
    /\ Len(invoked) = 3
    /\ invoked[1] = "pre" /\ invoked[2] \in Handlers /\ invoked[3] = "post"

\* ------------------------------------------------------------------ claims: build_parser without a schema

\* C12: a build_parser call given no schema type registers no option and no
\* group in the fresh parser it is given, does not raise, and changes neither
\* exclusion list, nor the declared name lists, nor the registry.
C12_NoSchemaNoOp ==
    [][(builds' = builds + 1 /\ cur'.model = NoModel) =>
          /\ cur'.parser = NewParser
          /\ ~cur'.raised
          /\ default_excl' = default_excl
          /\ caller_excl' = caller_excl
          /\ cli_decl' = cli_decl
          /\ registry' = registry]_vars

\* C12 witness: a call without a schema type made after a call that had
\* appended short flags to the default exclusion list
C12_Witness ==
    /\ builds = 2
    /\ cur.model = NoModel
    /\ cur.parser = NewParser
    /\ prev.model = "Flat"
    /\ default_excl = <<s_h, <<Dash, "a">>>>

\* ------------------------------------------------------------------ claims: round trip

\* the value the command line writes for the leaf field at a path: what its
\* last occurrence gives, the field's default when it does not occur
WrittenLeaf(model, path) ==
    LET given == {i \in GivenOptions : i > 0 /\ cur.parser.actions[i].origin = path}
        i == CHOOSE i \in given : TRUE
    IN  IF given = {} THEN FieldAt(model, path).default
        ELSE IF cur.parser.actions[i].nargs = "0" THEN VBool(cur.parser.actions[i].action = "store_true")
        ELSE Coerce(FieldAt(model, path).annotation, LastToken(i))

\* the schema value the command line writes, as nested mappings
RECURSIVE Written(_, _, _)
Written(root, model, prefix) ==
    [n \in {get_model_field(model)[i].name : i \in 1..Len(get_model_field(model))} |->
        IF FieldAt(root, prefix \o <<n>>).annotation = "record"
        THEN VDict(Written(root, FieldAt(root, prefix \o <<n>>).sub, prefix \o <<n>>))
        ELSE WrittenLeaf(root, prefix \o <<n>>)]

\* the command line gives only scalar leaves, with tokens of the leaf's type
WritesSchemaValue ==
    \A i \in GivenOptions :
        /\ i > 0
        /\ FieldAt(cur.model, cur.parser.actions[i].origin).annotation \in {"str", "int", "bool"}
        /\ cur.parser.actions[i].nargs # "0" =>
               ~CoerceFails(FieldAt(cur.model, cur.parser.actions[i].origin).annotation, LastToken(i))

\* C13: round trip.  When an accepted command line writes a schema value
\* (scalar leaves, top-level or in nested records), constructing the schema
\* from the parsed namespace succeeds and gives that value.
C13_RoundTrip ==
    (Parsed /\ ns.status = "ok" /\ WritesSchemaValue) =>
        model_validate(cur.model, ns.values) = [ok |-> TRUE, v |-> Written(cur.model, cur.model, <<>>)]

\* ------------------------------------------------------------------ claims: options per field

\* the options registered for the field at a path
OptionsOf(path) == {i \in 1..Len(cur.parser.actions) : cur.parser.actions[i].origin = path}

\* the fields the walk reaches: leaves of nested records when nesting is on
WalkedPaths ==
    {p \in LeafPaths(cur.model, IF cur.kw.parse_nested_model THEN {"record"} ELSE {}) :
        ~Excluded(p, cur.kw.excludes)}

\* two options, both in one required mutually exclusive group
MutexPair(path) ==
    /\ Cardinality(OptionsOf(path)) = 2
    /\ \E g \in 1..Len(cur.parser.mutex) :
          \A i \in OptionsOf(path) : cur.parser.actions[i].mutex = g

DefaultedBoolean(path) ==
    /\ FieldAt(cur.model, path).annotation = "bool"
    /\ ~FieldAt(cur.model, path).required
    /\ FieldAt(cur.model, path).default \in {VBool(TRUE), VBool(FALSE)}

\* the one flag of the boolean field at a path: the disable flag for a default
\* of true, the enable flag for a default of false, keeping the default when
\* the command line does not give it
SingleFlag(path) ==
    LET name == path[Len(path)]
        default == FieldAt(cur.model, path).default
    IN  /\ Cardinality(OptionsOf(path)) = 1
        /\ \A i \in OptionsOf(path) :
              /\ cur.parser.actions[i].dest = name
              /\ cur.parser.actions[i].default = default
              /\ cur.parser.actions[i].action =
                     (IF default = VBool(TRUE) THEN "store_false" ELSE "store_true")
              /\ (Parsed /\ ns.status = "ok") =>
                     ns.values[name] = (IF i \in GivenOptions THEN VBool(~default.v) ELSE default)

\* C15, as stated: every boolean field with a default, the leaves of nested
\* records included, yields the one flag that negates its default.
C15_EveryDefaultedBoolean ==
    Built => \A p \in LeafPaths(cur.model, {"record"}) : DefaultedBoolean(p) => SingleFlag(p)

\* C15: a boolean field with a default that is declared directly in the schema
\* given to build_parser yields exactly one option, with dest the field name
\* and default the field's default: the disable flag (storing false) for a
\* default of true, the enable flag (storing true) for a default of false;
\* a parse without the flag leaves the default, one with it the negation.
C15_DefaultedBooleanFlag ==
    Built => \A p \in LeafPaths(cur.model, {"record"}) :
                 (Len(p) = 1 /\ DefaultedBoolean(p)) => SingleFlag(p)

\* C15 witness: an accepted command line for Toggles that gives the disable
\* flag of color (default true) and not the enable flag of verbose
C15_Witness ==
    /\ Parsed
    /\ cur.model = "Toggles"
    /\ ns.status = "ok"
    /\ OptionsOf(<<s_color>>) \cap GivenOptions # {}
    /\ OptionsOf(<<s_verbose>>) \cap GivenOptions = {}
    /\ ns.values[s_color] = VBool(FALSE)
    /\ ns.values[s_verbose] = VBool(FALSE)

\* ------------------------------------------------------------------ claims: alias

\* s ends with the sequence t
EndsWith(s, t) == Len(s) >= Len(t) /\ SubSeq(s, Len(s) - Len(t) + 1, Len(s)) = t

\* C16: an option of a field with an alias and no declared names lists the
\* alias-derived flag first and the name-derived flag second, and has the
\* alias as its dest.
C16_AliasFirstAndDest ==
    Built =>
        \A i \in 2..Len(cur.parser.actions) :
            LET action == cur.parser.actions[i]
                field == FieldAt(cur.model, action.origin)
                sep == cur.kw.naming_separator
            IN  (Len(action.origin) = 1 /\ field.alias # None /\ field.cli_key = "") =>
                    /\ Len(action.option_strings) >= 2
                    /\ EndsWith(action.option_strings[1], replace(field.alias, Underscore, sep))
                    /\ EndsWith(action.option_strings[2], replace(field.name, Underscore, sep))
                    /\ IsPlain(action) =>
                          /\ action.option_strings[1] = <<Dash, Dash>> \o replace(field.alias, Underscore, sep)
                          /\ action.option_strings[2] = <<Dash, Dash>> \o replace(field.name, Underscore, sep)
                    /\ action.dest = field.alias

\* ------------------------------------------------------------------ claims: declared names

\* C17: the option of a field that declares its names has exactly the declared
\* names as flags, in the declared order, and the declared list is after the
\* build what it was before (in SpecParse: as declared).
C17_DeclaredNamesVerbatim ==
    Built =>
        \A i \in 2..Len(cur.parser.actions) :
            LET field == FieldAt(cur.model, cur.parser.actions[i].origin)
            IN  field.cli_key # "" =>
                    /\ cur.parser.actions[i].option_strings = CliDeclared[field.cli_key]
                    /\ cli_decl[field.cli_key] = CliDeclared[field.cli_key]

\* ------------------------------------------------------------------ claims: mapping tokens

\* the command line gives a mapping-shaped option a token without '='
GivesTokenWithoutEquals ==
    \E k \in 1..Len(ns.argv) :
        /\ ActionOf(cur.parser, ns.argv[k].flag) > 0
        /\ cur.parser.actions[ActionOf(cur.parser, ns.argv[k].flag)].action = "StoreKeywordParam"
        /\ \E j \in 1..Len(ns.argv[k].vals) : ~In("=", ns.argv[k].vals[j])

\* C18: a parse whose command line gives a mapping-shaped option a token
\* without '=' ends in the parser's usage error, not in an exception escaping
\* parse_args, and returns no namespace.
C18_MissingEqualsIsUsageError ==
    (Parsed /\ GivesTokenWithoutEquals) => (ns.status = "error" /\ ns.values = <<>>)

\* ------------------------------------------------------------------ claims: enumeration

\* C19: the option of an enumeration-typed field has the declared values as
\* its choices and no type function; a parse giving it a token that is not a
\* declared value is rejected, and an accepted parse gave it declared values.
C19_EnumChoices ==
    Built =>
        \A i \in 2..Len(cur.parser.actions) :
            FieldAt(cur.model, cur.parser.actions[i].origin).annotation = "enum" =>
                /\ cur.parser.actions[i].choices = FieldAt(cur.model, cur.parser.actions[i].origin).targs
                /\ cur.parser.actions[i].type = "None"
                /\ (Parsed /\ i \in GivenOptions) =>
                       (ns.status = "ok" =>
                           \A k \in 1..Len(ns.argv) :
                               ActionOf(cur.parser, ns.argv[k].flag) = i => In(ns.argv[k].vals[1], EnumValues))

\* ------------------------------------------------------------------ claims: group labels

\* the field names a class body declares itself (inherited ones left out)
DeclaredIn(id) ==
    CASE id = "Derived" -> {s_param, s_extra}
      [] id = "Multi" -> {s_tag}
      [] OTHER -> {get_model_field(id)[i].name : i \in 1..Len(get_model_field(id))}

\* the most ancestral type of the method resolution order that declares the name
EarliestDeclarer(id, name) ==
    ModelMro(id)[CHOOSE k \in 1..Len(ModelMro(id)) :
                    /\ name \in DeclaredIn(ModelMro(id)[k])
                    /\ \A m \in (k + 1)..Len(ModelMro(id)) : name \notin DeclaredIn(ModelMro(id)[m])]

\* the schema type whose walk registered the option
WalkedType(action) ==
    IF Len(action.origin) = 1 THEN cur.model
    ELSE FieldAt(cur.model, SubSeq(action.origin, 1, Len(action.origin) - 1)).sub

\* C20: get_groupby_field_names labels every field of a schema type with the
\* most ancestral type that declares a field of that name, so every option is
\* registered in the argument group of that type: the concrete type for a
\* field it introduces, the ancestor for a field a subtype redefines.
C20_GroupIsEarliestDeclarer ==
    Built =>
        /\ \A m \in {cur.model} \cup {WalkedType(cur.parser.actions[i]) : i \in 2..Len(cur.parser.actions)} :
              /\ DOMAIN get_groupby_field_names(m) =
                     {get_model_field(m)[i].name : i \in 1..Len(get_model_field(m))}
              /\ \A n \in DOMAIN get_groupby_field_names(m) :
                     get_groupby_field_names(m)[n] = EarliestDeclarer(m, n)
        /\ \A i \in 2..Len(cur.parser.actions) :
              (Len(cur.parser.actions[i].origin) > 1 \/ cur.kw.groupby_inherit) =>
                  /\ cur.parser.actions[i].container > 0
                  /\ cur.parser.groups[cur.parser.actions[i].container] =
                         EarliestDeclarer(WalkedType(cur.parser.actions[i]),
                             cur.parser.actions[i].origin[Len(cur.parser.actions[i].origin)])

\* C20 witness: the parser of Multi(Derived, Side), with one group for each of
\* Side (level), Base (param), Derived (extra) and Multi (tag)
C20_Witness ==
    /\ Built
    /\ cur.model = "Multi"
    /\ cur.parser.groups = <<"Side", "Base", "Derived", "Multi">>
    /\ \A i \in 2..Len(cur.parser.actions) : cur.parser.actions[i].container = i - 1

\* ------------------------------------------------------------------ claims: excludes

\* the exclusion list object of the last call, as the call left it
ExclusionLeft == IF cur.kw.excl = "default" THEN default_excl ELSE caller_excl

\* C21: no option is registered for a field whose name is in excludes, nor for
\* a leaf below an excluded nested record; every token the call added to the
\* exclusion list is a flag of a registered option, and every group created
\* holds a registered option (so an excluded field claimed no short flag and
\* created no group).
C21_ExcludedFieldSkipped ==
    Built =>
        /\ \A i \in 2..Len(cur.parser.actions) : ~Excluded(cur.parser.actions[i].origin, cur.kw.excludes)
        /\ \A k \in 1..Len(ExclusionLeft) :
              \/ In(ExclusionLeft[k], cur.excl_in)
              \/ \E i \in 2..Len(cur.parser.actions) : In(ExclusionLeft[k], cur.parser.actions[i].option_strings)
        /\ \A g \in 1..Len(cur.parser.groups) :
              \E i \in 2..Len(cur.parser.actions) : cur.parser.actions[i].container = g

\* C21 witness: Pair built with its nested record child excluded: the one
\* option is that of name, in the one group Pair, and only '-n' was claimed
C21_Witness ==
    /\ Built
    /\ cur.model = "Pair"
    /\ cur.kw.excludes = <<s_child>>
    /\ Len(cur.parser.actions) = 2
    /\ cur.parser.actions[2].origin = <<s_name>>
    /\ cur.parser.groups = <<"Pair">>
    /\ ExclusionLeft = <<s_h, <<Dash, "n">>>>

\* ------------------------------------------------------------------ claims: exclusion list

\* C22: a build_parser call leaves the exclusion list the caller supplied and
\* the default exclusion list holding exactly the tokens they held before the
\* call.
C22_ExclusionListsUnchanged ==
    [][builds' = builds + 1 => (caller_excl' = caller_excl /\ default_excl' = default_excl)]_vars

\* ------------------------------------------------------------------ claims: derived short flag

\* the names the field of an option declares under "cli" (none: the empty list)
DeclaredNames(field) == IF field.cli_key = "" THEN <<>> ELSE CliDeclared[field.cli_key]

\* C23: a one-letter flag that build_parser derived for a non-boolean field
\* (a two-character flag of its option that the field did not declare) is '-'
\* followed by the first character of the field's own name, also for a field
\* with an alias, with declared names, or in a nested record.
C23_ShortFlagFromFieldName ==
    Built =>
        \A i \in 2..Len(cur.parser.actions) :
            LET action == cur.parser.actions[i]
                field == FieldAt(cur.model, action.origin)
            IN  IsPlain(action) =>
                    \A k \in 1..Len(action.option_strings) :
                        (Len(action.option_strings[k]) = 2 /\ ~In(action.option_strings[k], DeclaredNames(field)))
                            => action.option_strings[k] = <<Dash, field.name[1]>>

\* ------------------------------------------------------------------ claims: boolean flag names

\* neither the field nor its schema overrides a boolean prefix
NoPrefixOverride(model, field) ==
    /\ ~field.has_extra
    /\ "cli_enable_prefix" \notin DOMAIN ModelConfig(model)
    /\ "cli_disable_prefix" \notin DOMAIN ModelConfig(model)

\* C24: with no prefix override and naming separator s, the name-derived flag
\* of a boolean field's enable option is '--enable' + s + name and that of its
\* disable option '--disable' + s + name (underscores of name replaced by s),
\* for a boolean without a default and for one with a default alike.
C24_BooleanFlagUsesSeparator ==
    Built =>
        \A i \in 2..Len(cur.parser.actions) :
            LET action == cur.parser.actions[i]
                field == FieldAt(cur.model, action.origin)
                sep == cur.kw.naming_separator
            IN  (action.action \in {"store_true", "store_false"} /\ NoPrefixOverride(WalkedType(action), field)) =>
                    action.option_strings[Len(action.option_strings)] =
                        (IF action.action = "store_true" THEN p_enable ELSE p_disable)
                        \o sep \o replace(field.name, Underscore, sep)

\* ------------------------------------------------------------------ claims: one group per label

\* the group label of an option: the type that labels its field
LabelOf(action) == EarliestDeclarer(WalkedType(action), action.origin[Len(action.origin)])

\* C25: in the parser of one build_parser call no two argument groups have
\* the same label, two grouped options whose fields carry the same label are
\* in the same group (also the leaves of two nested-record fields of the same
\* schema type), and every group holds at least one option.
C25_OneGroupPerLabel ==
    Built =>
        /\ \A g, h \in 1..Len(cur.parser.groups) : cur.parser.groups[g] = cur.parser.groups[h] => g = h
        /\ \A i, j \in 2..Len(cur.parser.actions) :
              (/\ cur.parser.actions[i].container > 0
               /\ cur.parser.actions[j].container > 0
               /\ LabelOf(cur.parser.actions[i]) = LabelOf(cur.parser.actions[j]))
              => cur.parser.actions[i].container = cur.parser.actions[j].container
        /\ \A g \in 1..Len(cur.parser.groups) :
              \E i \in 2..Len(cur.parser.actions) : cur.parser.actions[i].container = g

\* ------------------------------------------------------------------ claims: boolean leaf of a nested record

\* the boolean leaf at a path is one required option '--<prefix>.<name>' that
\* takes one token and has type bool; an accepted parse that gave it the
\* token 'true' holds true at the leaf's path in the namespace
ValueOption(path) ==
    /\ Cardinality(OptionsOf(path)) = 1
    /\ \A i \in OptionsOf(path) :
          /\ cur.parser.actions[i].option_strings[1] = DottedFlag(path, cur.kw.naming_separator)
          /\ cur.parser.actions[i].required
          /\ cur.parser.actions[i].nargs = "None"
          /\ cur.parser.actions[i].type = "bool"
          /\ cur.parser.actions[i].mutex = 0
          /\ (Parsed /\ ns.status = "ok" /\ i \in GivenOptions /\ LastToken(i) = s_true) =>
                 PathValue(ns.values, path) = [found |-> TRUE, v |-> VBool(TRUE)]

\* C26: a boolean leaf with no default inside a nested record is a single
\* required option '--<prefix>.<name>' taking one value token of type bool, not
\* an enable/disable pair, and parsing it with 'true' stores true in the
\* nested mapping under the leaf name.
C26_NestedBooleanLeaf ==
    (Built /\ cur.kw.parse_nested_model) =>
        \A p \in LeafPaths(cur.model, {"record"}) :
            (Len(p) >= 2 /\ NoDefaultBoolean(p) /\ ~Excluded(p, cur.kw.excludes)) => ValueOption(p)

\* ------------------------------------------------------------------ claims: auto_truncate off

\* C27: a build_parser call with auto_truncate false gives no option, at any
\* nesting level, a one-letter flag its field did not declare, and leaves the
\* exclusion list as it was given.
C27_NoTruncateAnywhere ==
    (Built /\ ~cur.kw.auto_truncate) =>
        /\ \A i \in 2..Len(cur.parser.actions) :
              \A k \in 1..Len(cur.parser.actions[i].option_strings) :
                  Len(cur.parser.actions[i].option_strings[k]) = 2 =>
                      In(cur.parser.actions[i].option_strings[k],
                         DeclaredNames(FieldAt(cur.model, cur.parser.actions[i].origin)))
        /\ ExclusionLeft = cur.excl_in

\* ------------------------------------------------------------------ claims: registry shape

\* C28: the registry never holds the top-level command (key None) together
\* with a named sub-command.
C28_TopLevelOrSubCommands ==
    HasKey(registry, NoneKey) => Len(registry) = 1

\* ------------------------------------------------------------------ claims: repeated registration

\* the registration just attempted names a key that holds this very handler
SameHandler(reg, result) ==
    /\ result.op \in {"command", "sub_command"}
    /\ HasKey(reg, result.name)
    /\ Lookup(reg, result.name) = result.func

\* C29: registering a handler again under the name it is registered under
\* (command for the top-level handler, sub_command(name) for a sub-command
\* handler) returns normally and leaves the registry unchanged, every time.
C29_RepeatedRegistration ==
    [][SameHandler(registry, cli_result') => (cli_result'.outcome = "returned" /\ registry' = registry)]_vars

\* C29 witness: sub_command('launch1') has just returned for the handler that
\* holds launch1, registered before launch2 was: a repeated registration
C29_Witness ==
    /\ cli_result.op = "sub_command"
    /\ cli_result.name = "launch1"
    /\ cli_result.outcome = "returned"
    /\ Len(registry) = 2
    /\ registry[1] = [name |-> "launch1", handler |-> cli_result.func]
    /\ registry[2].name = "launch2"

\* ------------------------------------------------------------------ claims: parsing leaves the parser

\* the tokens the command line gives option i, in order
RECURSIVE TokensGiven(_, _, _, _)
TokensGiven(parser, argv, k, i) ==
    IF k > Len(argv) THEN <<>>
    ELSE (IF ActionOf(parser, argv[k].flag) = i THEN argv[k].vals ELSE <<>>)
         \o TokensGiven(parser, argv, k + 1, i)

KeyOf(tok) == split(tok, "=")[1]

ValueOf(tok) == join(<<"=">>, Tail(split(tok, "=")))

\* the entries of the mapping d overlaid with the key=value tokens, a later
\* token winning over an earlier one with the same key
Overlaid(d, toks) ==
    [key \in (DOMAIN d) \cup {KeyOf(toks[j]) : j \in 1..Len(toks)} |->
        IF \E j \in 1..Len(toks) : KeyOf(toks[j]) = key
        THEN VStr(ValueOf(toks[CHOOSE j \in 1..Len(toks) :
                 KeyOf(toks[j]) = key /\ \A m \in (j + 1)..Len(toks) : KeyOf(toks[m]) # key]))
        ELSE d[key]]

\* the options of mapping-shaped fields that have a default mapping
MappingOptions(model, parser) ==
    {i \in 2..Len(parser.actions) :
        /\ FieldAt(model, parser.actions[i].origin).annotation = "dict"
        /\ FieldAt(model, parser.actions[i].origin).default.t = "dict"}

\* C30: a parse leaves the parser as it was (the default of every option is
\* after the parse what it was before), a parse of the token list of the
\* parse before gives the result of the parse before, and in an accepted
\* parse the value of a mapping-shaped field with a default mapping holds
\* exactly the default entries overlaid with the key=value pairs of that parse.
C30_ParseLeavesParser ==
    [][(builds' = builds /\ ns'.status # "none") =>
          /\ cur'.parser = cur.parser
          /\ (ns.status # "none" /\ ns'.argv = ns.argv) => ns' = ns
          /\ ns'.status = "ok" =>
                \A i \in MappingOptions(cur.model, cur.parser) :
                    ns'.values[cur.parser.actions[i].dest] =
                        VDict(Overlaid(FieldAt(cur.model, cur.parser.actions[i].origin).default.v,
                                       TokensGiven(cur.parser, ns'.argv, 1, i)))]_vars

====
